---- MODULE Spec2Model ----
(***************************************************************************)
(* Model of the analytics layer of mindburn-aletheia:                      *)
(*   - the threshold anomaly detector                                      *)
(*       src/infrastructure/src/analytics/ml/anomaly_detector.py           *)
(*   - the model-based anomaly detector                                    *)
(*       src/src/analytics/ml/anomaly_detector.py                          *)
(*   - the task router                                                     *)
(*       src/src/analytics/ml/task_router.py                               *)
(* The three components share no runtime state; each has its own           *)
(* specification (SpecThreshold, SpecDetector, SpecRouter).                *)
(*                                                                         *)
(* Arithmetic is exact: a mean is the fraction sum/count, and a comparison *)
(* against mean + sigma*std is carried out on the squares, cross           *)
(* multiplied, so that no square root and no division is needed.           *)
(***************************************************************************)
EXTENDS Integers, Sequences, FiniteSets, TLC

VARIABLES
    \* ---- threshold detector (infrastructure/.../anomaly_detector.py)
    ALERT_TOPIC_ARN,   \* module-level configuration, "" when not configured
    tPc,               \* "idle", "handled" (lambda_handler ran), "called" (_detect_anomalies called directly)
    event,             \* the invocation event of lambda_handler
    metrics_data,      \* the list of metric records handed to the detector
    metrics_before,    \* the same list as the caller held it before the call
    sensitivity,       \* the sensitivity string in use
    detected,          \* outcome of _detect_anomalies: [raised, value]
    response,          \* what lambda_handler returned
    cloudwatch,        \* MetricData put to CloudWatch in this run
    published,         \* messages published to SNS in this run
    \* ---- model-based detector (src/analytics/ml/anomaly_detector.py)
    dPc,               \* "new", "trained", "trainFailed"
    detector,          \* the in-memory AnomalyDetector: [scaler, model]
    s3,                \* the model artifact in the bucket, <<>> when there is none
    train_before,      \* the historical DataFrame as the caller passed it to train
    train_data,        \* the same DataFrame object after train returned or raised
    verification_data, \* the records received for scoring, <<>> before any
    received,          \* TRUE once a scoring batch has been received
    mem_before,        \* the caller's DataFrame as passed to detect_anomalies
    mem_data,          \* the same DataFrame object after detect_anomalies
    mem_result,        \* outcome of detector.detect_anomalies: [raised, value]
    lam_result,        \* outcome of detect_anomalies inside the scoring lambda_handler
    lam_scaler,        \* the scaler of the lambda's detector after scoring
    lam_response,      \* what the scoring lambda_handler returned
    \* ---- task router (src/analytics/ml/task_router.py)
    rPc,               \* "new", "trained", "trainFailed"
    router,            \* the in-memory TaskRouter: [label_encoders, scaler, model]
    router_s3,         \* the router artifact in the bucket, <<>> when there is none
    training_before,   \* the training DataFrame as the caller passed it to train
    training_data,     \* the same DataFrame object after train returned or raised
    task_features,     \* the task of the last prediction, <<>> before any
    worker_probs,      \* what predict_proba returned for it
    predicted,         \* outcome of router.predict_worker: [raised, value]
    route_response     \* what the routing lambda_handler returned

varsT == <<ALERT_TOPIC_ARN, tPc, event, metrics_data, metrics_before,
           sensitivity, detected, response, cloudwatch, published>>

varsD == <<dPc, detector, s3, train_before, train_data, verification_data, received,
           mem_before, mem_data, mem_result, lam_result, lam_scaler, lam_response>>

varsR == <<rPc, router, router_s3, training_before, training_data,
           task_features, worker_probs, predicted, route_response>>

vars == <<varsT, varsD, varsR>>

-----------------------------------------------------------------------------
(* Generic helpers *)

Range(s) == {s[i] : i \in DOMAIN s}

RECURSIVE SumSeq(_)
SumSeq(s) == IF s = <<>> THEN 0 ELSE Head(s) + SumSeq(Tail(s))

Ok(v)      == [raised |-> "", value |-> v]
Raised(e)  == [raised |-> e, value |-> <<>>]
NotCalled  == [raised |-> "not called", value |-> <<>>]

-----------------------------------------------------------------------------
(* Bounds of the model *)

\* largest number of records in a metrics batch of the threshold detector
MaxBatch == 11

\* largest number of records in a DataFrame of the model-based detector
MaxRecords == 11

\* largest number of records in a training DataFrame of the router
MaxTraining == 3

\* largest vote count predict_proba gives a class (the probability is the
\* count over the sum of the counts)
MaxVotes == 1

-----------------------------------------------------------------------------
(* Threshold anomaly detector *)

\* str.lower() on the sensitivity strings the model uses
Lower(s) ==
    CASE s = "LOW"    -> "low"
      [] s = "Medium" -> "medium"
      [] s = "HIGH"   -> "high"
      [] OTHER        -> s

\* _get_lookback_hours: sensitivity_map.get(sensitivity.lower(), 12)
_get_lookback_hours(sens) ==
    CASE Lower(sens) = "low"    -> 24
      [] Lower(sens) = "medium" -> 12
      [] Lower(sens) = "high"   -> 4
      [] OTHER                  -> 12

\* the sigma multiples of 'low' and 'high' exchanged
sigma_threshold_x2_swapped(sens) ==
    CASE Lower(sens) = "low"    -> 4
      [] Lower(sens) = "medium" -> 5
      [] Lower(sens) = "high"   -> 6
      [] OTHER                  -> 5

\* threshold_map.get(sensitivity.lower(), 2.5), as twice the sigma multiple
\* (3.0 -> 6, 2.5 -> 5, 2.0 -> 4) so that it stays an integer
sigma_threshold_x2(sens) ==
    CASE Lower(sens) = "low"    -> 6
      [] Lower(sens) = "medium" -> 5
      [] Lower(sens) = "high"   -> 4
      [] OTHER                  -> 5

\* df['response_time_ms'] > mean + sigma*std for one response time rt, with
\* std the sample standard deviation (ddof = 1).  With n the number of
\* records, S the sum and Q the sum of squares of the response times:
\*   mean = S/n,  std^2 = (n*Q - S*S) / (n*(n-1)),  sigma = k/2.
\* For n = 1 std is NaN and every comparison with it is False.
\*   rt > S/n + (k/2)*std   <=>   n*rt - S > 0  /\
\*                                4*(n*rt - S)^2*(n-1) > k^2 * n * (n*Q - S*S)
ExceedsUpperThreshold(n, S, Q, k, rt) ==
    /\ n > 1
    /\ n * rt - S > 0
    /\ 4 * (n * rt - S) * (n * rt - S) * (n - 1) > k * k * n * (n * Q - S * S)

\* response_time_anomalies = df[df['response_time_ms'] > upper_threshold]
response_time_anomalies(rows, sens) ==
    LET n == Len(rows)
        S == SumSeq([i \in 1..n |-> rows[i].response_time_ms])
        Q == SumSeq([i \in 1..n |-> rows[i].response_time_ms * rows[i].response_time_ms])
        k == sigma_threshold_x2(sens)
        Hit(r) == ExceedsUpperThreshold(n, S, Q, k, r.response_time_ms)
    IN  SelectSeq(rows, Hit)

\* the HIGH_RESPONSE_TIME block of _detect_anomalies
ResponseTimeAnomaly(rows, sens) ==
    LET hits == response_time_anomalies(rows, sens)
    IN  IF hits # <<>>
        THEN << [type            |-> "HIGH_RESPONSE_TIME",
                 count           |-> Len(hits),
                 severity        |-> "MEDIUM",
                 affectedWorkers |-> Cardinality({hits[i].worker_id : i \in DOMAIN hits})] >>
        ELSE <<>>

\* number of accurate records, and accuracy as the fraction <<accurate, total>>
NumAccurate(rows) ==
    LET Acc(r) == r.is_accurate IN Len(SelectSeq(rows, Acc))

\* the LOW_ACCURACY block: accuracy_rate < 0.75, HIGH when < 0.6
AccuracyAnomaly(rows) ==
    LET n == Len(rows)
        a == NumAccurate(rows)
    IN  IF 4 * a < 3 * n
        THEN << [type      |-> "LOW_ACCURACY",
                 value     |-> <<a, n>>,
                 severity  |-> IF 5 * a < 3 * n THEN "HIGH" ELSE "MEDIUM"] >>
        ELSE <<>>

\* groupby('content_type') iterates over the groups in sorted key order
SortedContentTypes == <<"image", "text", "video">>

GroupOf(rows, ct) ==
    LET In(r) == r.content_type = ct IN SelectSeq(rows, In)

\* the sample-size floor tested with > instead of >=
ContentTypeAnomaly_strict_floor(rows, ct) ==
    LET g == GroupOf(rows, ct)
        c == Len(g)
        a == NumAccurate(g)
    IN  IF c > 10 /\ 10 * a < 7 * c
        THEN << [type        |-> "CONTENT_TYPE_LOW_ACCURACY",
                 contentType |-> ct,
                 value       |-> <<a, c>>,
                 count       |-> c,
                 severity    |-> IF 2 * a < c THEN "HIGH" ELSE "MEDIUM"] >>
        ELSE <<>>

\* one iteration of the loop over content_type_stats.iterrows():
\* count >= 10 and mean accuracy < 0.7, HIGH when < 0.5
ContentTypeAnomaly(rows, ct) ==
    LET g == GroupOf(rows, ct)
        c == Len(g)
        a == NumAccurate(g)
    IN  IF c >= 10 /\ 10 * a < 7 * c
        THEN << [type        |-> "CONTENT_TYPE_LOW_ACCURACY",
                 contentType |-> ct,
                 value       |-> <<a, c>>,
                 count       |-> c,
                 severity    |-> IF 2 * a < c THEN "HIGH" ELSE "MEDIUM"] >>
        ELSE <<>>

RECURSIVE ContentTypeAnomalies(_, _)
ContentTypeAnomalies(rows, cts) ==
    IF cts = <<>> THEN <<>>
    ELSE ContentTypeAnomaly(rows, Head(cts)) \o ContentTypeAnomalies(rows, Tail(cts))

\* _detect_anomalies(metrics_data, sensitivity).  pd.DataFrame([]) has no
\* columns, so df['response_time_ms'] raises KeyError on an empty list.
_detect_anomalies(rows, sens) ==
    IF rows = <<>>
    THEN Raised("KeyError")
    ELSE Ok(ResponseTimeAnomaly(rows, sens)
            \o AccuracyAnomaly(rows)
            \o ContentTypeAnomalies(rows, SortedContentTypes))

\* _log_anomalies_to_cloudwatch: one counter per anomaly, and a value metric
\* for an anomaly that carries a 'value'
RECURSIVE MetricData(_)
MetricData(anoms) ==
    IF anoms = <<>> THEN <<>>
    ELSE LET a == Head(anoms)
             counter == << [MetricName |-> <<"Anomaly", a.type>>, Value |-> <<1, 1>>, Unit |-> "Count"] >>
             valuem  == IF "value" \in DOMAIN a
                        THEN << [MetricName |-> <<a.type, "Value">>, Value |-> a.value, Unit |-> "None"] >>
                        ELSE <<>>
         IN  counter \o valuem \o MetricData(Tail(anoms))

\* _send_anomaly_alert: the messages it publishes (none or one)
high_severity_anomalies(anoms) ==
    LET High(a) == a.severity = "HIGH" IN SelectSeq(anoms, High)

\* the alert sent without the severity filter
_send_anomaly_alert_unfiltered(anoms) ==
    IF anoms # <<>> THEN << [anomalies |-> anoms] >> ELSE <<>>

_send_anomaly_alert(anoms) ==
    IF high_severity_anomalies(anoms) # <<>>
    THEN << [anomalies |-> high_severity_anomalies(anoms)] >>
    ELSE <<>>

-----------------------------------------------------------------------------
(* Model-based anomaly detector: exact fractions *)

Abs(x) == IF x < 0 THEN -x ELSE x
Sgn(x) == IF x < 0 THEN -1 ELSE IF x > 0 THEN 1 ELSE 0

RECURSIVE GCD(_, _)
GCD(a, b) == IF b = 0 THEN a ELSE GCD(b, a % b)

\* the fraction n/d (d > 0) in lowest terms, as <<n, d>>
Reduce(n, d) ==
    LET g == GCD(Abs(n), d) IN <<n \div g, d \div g>>

-----------------------------------------------------------------------------
(* Model-based anomaly detector: pandas / scikit-learn pieces it uses *)

\* rolling(window=10)
Window == 10

\* AnomalyDetector.feature_columns
feature_columns == <<"response_time_ms", "confidence_score", "cost", "accuracy_rate">>

\* accuracy_rate is a mean over Window booleans: it is kept as <<k>>, the
\* number of accurate records in the window (the rate is k/Window), and NaN
\* is <<>>.  The other feature columns are integers.
NaN == <<>>

\* pd.DataFrame(list of records): the columns are the keys of the records
DataFrame(records) ==
    [columns |-> IF records = <<>> THEN {} ELSE DOMAIN records[1],
     rows    |-> records]

\* df['is_accurate'].rolling(window=10).mean(), row by row
RollingAccuracy(rows, i) ==
    IF i < Window THEN NaN
    ELSE << Cardinality({j \in (i - Window + 1)..i : rows[j].is_accurate}) >>

\* df['accuracy_rate'] = ... : the column is set on the DataFrame passed in
WithAccuracyRate(df) ==
    [columns |-> df.columns \cup {"accuracy_rate"},
     rows    |-> [i \in DOMAIN df.rows |->
                    [c \in df.columns \cup {"accuracy_rate"} |->
                        IF c = "accuracy_rate" THEN RollingAccuracy(df.rows, i)
                        ELSE df.rows[i][c]]]]

\* only the rolling mean produces NaN cells
IsNaN(col, v) == col = "accuracy_rate" /\ v = NaN

\* df.dropna(): a new frame without the rows that hold a NaN
DropNa(df) ==
    LET Full(r) == \A c \in df.columns : ~IsNaN(c, r[c])
    IN  [columns |-> df.columns, rows |-> SelectSeq(df.rows, Full)]

\* the integer a cell stands for, and the unit it is counted in
\* (accuracy_rate <<k>> is k/Window)
CellInt(col, v) == IF col = "accuracy_rate" THEN v[1] ELSE v
Unit(col)       == IF col = "accuracy_rate" THEN Window ELSE 1

\* df[self.feature_columns] as a matrix of cells
Features(df) ==
    [i \in DOMAIN df.rows |-> [j \in DOMAIN feature_columns |-> df.rows[i][feature_columns[j]]]]

\* StandardScaler(): not fitted
NewScaler == [fitted |-> FALSE, mean_ |-> <<>>, var_ |-> <<>>]

\* StandardScaler.fit(X): per column the mean and the population variance
ScalerFit(X) ==
    LET n == Len(X)
        S(j) == SumSeq([i \in 1..n |-> CellInt(feature_columns[j], X[i][j])])
        Q(j) == SumSeq([i \in 1..n |-> CellInt(feature_columns[j], X[i][j])
                                        * CellInt(feature_columns[j], X[i][j])])
        u(j) == Unit(feature_columns[j])
    IN  [fitted |-> TRUE,
         mean_  |-> [j \in DOMAIN feature_columns |-> Reduce(S(j), u(j) * n)],
         var_   |-> [j \in DOMAIN feature_columns |->
                        Reduce(n * Q(j) - S(j) * S(j), u(j) * u(j) * n * n)]]

\* one standardized value z = (x - mean_) / scale_, scale_ = sqrt(var_) or 1
\* when var_ = 0, kept exactly as <<sign of z, p, q>> with z*z = p/q
Standardize(scaler, j, cell) ==
    LET u  == Unit(feature_columns[j])
        x  == CellInt(feature_columns[j], cell)
        m  == scaler.mean_[j]
        v  == scaler.var_[j]
        d  == x * m[2] - m[1] * u        \* x/u - mean = d / (u * m[2])
        sq == IF v[1] = 0
              THEN Reduce(d * d, u * u * m[2] * m[2])
              ELSE Reduce(d * d * v[2], u * u * m[2] * m[2] * v[1])
    IN  <<Sgn(d), sq[1], sq[2]>>

\* StandardScaler.transform(X)
ScalerTransform(scaler, X) ==
    [i \in DOMAIN X |-> [j \in DOMAIN feature_columns |-> Standardize(scaler, j, X[i][j])]]

\* IsolationForest(...): not fitted.  A fitted forest is a fixed function of
\* a feature row; which one is decided at fit time.  The family used here
\* isolates on one feature: rows on one side of the training centre in
\* column `col` are outliers, and the score is the signed distance.
NewForest == [fitted |-> FALSE, col |-> 1, side |-> 1]
Forests   == {[fitted |-> TRUE, col |-> c, side |-> d] :
                 c \in DOMAIN feature_columns, d \in {-1, 1}}

\* model.score_samples(x): lower is more anomalous
score_samples(model, z) ==
    <<-(model.side * z[model.col][1]), z[model.col][2], z[model.col][3]>>

\* model.predict(x) == -1
IsOutlier(model, z) == score_samples(model, z)[1] < 0

-----------------------------------------------------------------------------
(* Model-based anomaly detector: AnomalyDetector *)

\* AnomalyDetector.__init__
NewDetector == [scaler |-> NewScaler, model |-> NewForest]

\* AnomalyDetector.preprocess_data(df).  Yields what it raised (if anything),
\* the caller's DataFrame as the call leaves it, the scaler as the call
\* leaves it and the scaled feature matrix.
preprocess_data(scaler, df) ==
    IF "is_accurate" \notin df.columns
    THEN [raised |-> "KeyError", df |-> df, scaler |-> scaler, scaled |-> <<>>]
    ELSE LET df1   == WithAccuracyRate(df)
             local == DropNa(df1)
         IN  IF ~(Range(feature_columns) \subseteq local.columns)
             THEN [raised |-> "KeyError", df |-> df1, scaler |-> scaler, scaled |-> <<>>]
             ELSE IF local.rows = <<>>
             THEN [raised |-> "ValueError", df |-> df1, scaler |-> scaler, scaled |-> <<>>]
             ELSE LET fit == ScalerFit(Features(local))
                  IN  [raised |-> "", df |-> df1, scaler |-> fit,
                       scaled |-> ScalerTransform(fit, Features(local))]

\* AnomalyDetector.detect_anomalies(data): value is <<anomalies, scores>>
detect_anomalies(det, df) ==
    LET pre == preprocess_data(det.scaler, df)
    IN  IF pre.raised # ""
        THEN [raised |-> pre.raised, value |-> <<>>, df |-> pre.df, scaler |-> pre.scaler]
        ELSE IF ~det.model.fitted
        THEN [raised |-> "NotFittedError", value |-> <<>>, df |-> pre.df, scaler |-> pre.scaler]
        ELSE [raised |-> "",
              value  |-> << [i \in DOMAIN pre.scaled |-> IsOutlier(det.model, pre.scaled[i])],
                            [i \in DOMAIN pre.scaled |-> score_samples(det.model, pre.scaled[i])] >>,
              df     |-> pre.df,
              scaler |-> pre.scaler]

\* joblib.dump(obj, file) + upload, and download + joblib.load(file)
Dump(obj)      == << [pickled |-> obj] >>
Load(artifact) == artifact[1].pickled

\* np.where(anomalies)[0]: the 0-based positions of the True flags
RECURSIVE WhereTrue(_, _)
WhereTrue(flags, i) ==
    IF i > Len(flags) THEN <<>>
    ELSE (IF flags[i] THEN <<i - 1>> ELSE <<>>) \o WhereTrue(flags, i + 1)

\* the body of the scoring lambda_handler
ScoringResponse(artifact, records) ==
    IF artifact = <<>>
    THEN [result |-> Raised("ClientError"), scaler |-> NewScaler,
          response |-> [statusCode |-> 500, anomaly_count |-> 0, anomalies |-> <<>>]]
    ELSE LET data == DataFrame(records)
             det  == [NewDetector EXCEPT !.model = Load(artifact)]
             r    == detect_anomalies(det, data)
             idxs == WhereTrue(r.value[1], 1)
         IN  IF r.raised # ""
             THEN [result |-> Raised(r.raised), scaler |-> r.scaler,
                   response |-> [statusCode |-> 500, anomaly_count |-> 0, anomalies |-> <<>>]]
             ELSE [result |-> Ok(r.value), scaler |-> r.scaler,
                   response |->
                     [statusCode    |-> 200,
                      anomaly_count |-> Len(idxs),
                      anomalies     |->
                        [k \in DOMAIN idxs |->
                            [index     |-> idxs[k],
                             score     |-> r.value[2][idxs[k] + 1],
                             timestamp |-> r.df.rows[idxs[k] + 1].timestamp,
                             metrics   |-> [j \in DOMAIN feature_columns |->
                                              r.df.rows[idxs[k] + 1][feature_columns[j]]]]]]]

-----------------------------------------------------------------------------
(* Inputs of the model-based detector *)

\* n records in temporal order; record p (if any) is slow and inaccurate
VerificationData(n, p) ==
    [i \in 1..n |->
        [timestamp        |-> i,
         response_time_ms |-> IF i = p THEN 9 ELSE 2,
         confidence_score |-> 1,
         cost             |-> 1,
         is_accurate      |-> i # p]]

VerificationBatches ==
    {VerificationData(n, p) : n \in 0..MaxRecords, p \in 0..MaxRecords}

-----------------------------------------------------------------------------
(* Operations of the model-based detector *)

InitD ==
    /\ dPc = "new"
    /\ detector = NewDetector
    /\ s3 = <<>>
    /\ train_before = DataFrame(<<>>)
    /\ train_data = DataFrame(<<>>)
    /\ verification_data = <<>>
    /\ received = FALSE
    /\ mem_before = DataFrame(<<>>)
    /\ mem_data = DataFrame(<<>>)
    /\ mem_result = NotCalled
    /\ lam_result = NotCalled
    /\ lam_scaler = NewScaler
    /\ lam_response = [statusCode |-> 0, anomaly_count |-> 0, anomalies |-> <<>>]

\* train_anomaly_detector: AnomalyDetector().train(data), then the model is
\* dumped and uploaded.  An exception in train leaves the bucket untouched.
TrainAnomalyDetector(records, forest) ==
    LET data == DataFrame(records)
        pre  == preprocess_data(NewScaler, data)
    IN
    /\ dPc = "new"
    /\ train_before' = data
    /\ train_data' = pre.df
    /\ IF pre.raised # ""
       THEN /\ dPc' = "trainFailed"
            /\ detector' = [NewDetector EXCEPT !.scaler = pre.scaler]
            /\ s3' = <<>>
       ELSE /\ dPc' = "trained"
            /\ detector' = [scaler |-> pre.scaler, model |-> forest]
            /\ s3' = Dump(forest)
    /\ UNCHANGED <<verification_data, received, mem_before, mem_data, mem_result,
                   lam_result, lam_scaler, lam_response>>

\* a batch of verification records arrives for scoring
ReceiveBatch(records) ==
    /\ dPc \in {"trained", "trainFailed"}
    /\ ~received
    /\ received' = TRUE
    /\ verification_data' = records
    /\ UNCHANGED <<dPc, detector, s3, train_before, train_data, mem_before,
                   mem_data, mem_result, lam_result, lam_scaler, lam_response>>

\* detector.detect_anomalies(pd.DataFrame(verification_data)) on the in-memory detector
DetectInMemory ==
    LET data == DataFrame(verification_data)
        r    == detect_anomalies(detector, data)
    IN
    /\ received
    /\ mem_before' = data
    /\ mem_data' = r.df
    /\ mem_result' = [raised |-> r.raised, value |-> r.value]
    /\ detector' = [detector EXCEPT !.scaler = r.scaler]
    /\ UNCHANGED <<dPc, s3, train_before, train_data, verification_data, received,
                   lam_result, lam_scaler, lam_response>>
    /\ UNCHANGED <<varsT, varsR>>

\* the scoring lambda_handler on event['verification_data'] = verification_data
ScoringLambda ==
    LET out == ScoringResponse(s3, verification_data)
    IN
    /\ received
    /\ lam_result' = out.result
    /\ lam_scaler' = out.scaler
    /\ lam_response' = out.response
    /\ UNCHANGED <<dPc, detector, s3, train_before, train_data, verification_data, received,
                   mem_before, mem_data, mem_result>>
    /\ UNCHANGED <<varsT, varsR>>

Train ==
    /\ dPc = "new"
    /\ \E records \in VerificationBatches, forest \in Forests :
          TrainAnomalyDetector(records, forest)
    /\ UNCHANGED <<varsT, varsR>>

Receive ==
    /\ ~received
    /\ \E records \in VerificationBatches : ReceiveBatch(records)
    /\ UNCHANGED <<varsT, varsR>>

NextD == Train \/ Receive \/ DetectInMemory \/ ScoringLambda

-----------------------------------------------------------------------------
(* Inputs of the threshold detector *)

Sensitivities == {"low", "medium", "high", "HIGH", "urgent"}

\* event.get('sensitivity', 'medium'); an event without the key is <<>>
Events == {<<>>} \cup {[sensitivity |-> s] : s \in Sensitivities}

EventSensitivity(ev) ==
    IF "sensitivity" \in DOMAIN ev THEN ev.sensitivity ELSE "medium"

\* The record shapes a batch is made of: typical and slow responses,
\* accurate and inaccurate, of two content types.
RecordKinds ==
    << [response_time_ms |-> 2, is_accurate |-> TRUE,  content_type |-> "text"],
       [response_time_ms |-> 2, is_accurate |-> FALSE, content_type |-> "text"],
       [response_time_ms |-> 9, is_accurate |-> TRUE,  content_type |-> "text"],
       [response_time_ms |-> 2, is_accurate |-> TRUE,  content_type |-> "image"],
       [response_time_ms |-> 2, is_accurate |-> FALSE, content_type |-> "image"] >>

RECURSIVE KindAt(_, _, _)
KindAt(cnt, i, k) == IF i <= cnt[k] THEN k ELSE KindAt(cnt, i - cnt[k], k + 1)

\* the batch with cnt[k] records of kind k; task ids and worker ids by position
MkBatch(cnt) ==
    [i \in 1..SumSeq(cnt) |->
        LET kind == RecordKinds[KindAt(cnt, i, 1)]
        IN  [task_id          |-> i,
             worker_id        |-> i % 3,
             content_type     |-> kind.content_type,
             response_time_ms |-> kind.response_time_ms,
             is_accurate      |-> kind.is_accurate]]

MetricBatches ==
    {MkBatch(cnt) : cnt \in {c \in [1..Len(RecordKinds) -> 0..MaxBatch] : SumSeq(c) <= MaxBatch}}

\* _load_recent_metrics(lookback_hours): the query of the metrics store; the
\* records it finds are not decided by the detector, so any batch may come
\* back, the empty one included
_load_recent_metrics(lookback_hours) == MetricBatches

-----------------------------------------------------------------------------
(* Operations of the threshold detector *)

InitT ==
    /\ ALERT_TOPIC_ARN \in {"", "arn:aws:sns:alerts"}
    /\ tPc = "idle"
    /\ event = <<>>
    /\ metrics_data = <<>>
    /\ metrics_before = <<>>
    /\ sensitivity = "medium"
    /\ detected = NotCalled
    /\ response = [statusCode |-> 0, anomaliesDetected |-> 0]
    /\ cloudwatch = <<>>
    /\ published = <<>>

\* lambda_handler(event, context); batch is what _load_recent_metrics returned
LambdaHandler(ev, batch) ==
    LET sens == EventSensitivity(ev)
        res  == _detect_anomalies(batch, sens)
    IN
    /\ tPc = "idle"
    /\ tPc' = "handled"
    /\ event' = ev
    /\ sensitivity' = sens
    /\ metrics_before' = batch
    /\ metrics_data' = batch
    /\ UNCHANGED ALERT_TOPIC_ARN
    /\ IF batch = <<>>
       THEN /\ detected' = NotCalled
            /\ response' = [statusCode |-> 200, anomaliesDetected |-> 0]
            /\ cloudwatch' = <<>>
            /\ published' = <<>>
       ELSE IF res.raised # ""
       THEN /\ detected' = res
            /\ response' = [statusCode |-> 500, anomaliesDetected |-> 0]
            /\ cloudwatch' = <<>>
            /\ published' = <<>>
       ELSE /\ detected' = res
            /\ response' = [statusCode |-> 200, anomaliesDetected |-> Len(res.value)]
            /\ cloudwatch' = IF res.value # <<>> THEN MetricData(res.value) ELSE <<>>
            /\ published' = IF res.value # <<>> /\ ALERT_TOPIC_ARN # ""
                            THEN _send_anomaly_alert(res.value)
                            ELSE <<>>

\* a direct call detect(batch, sensitivity) of _detect_anomalies
DetectCall(batch, sens) ==
    /\ tPc = "idle"
    /\ tPc' = "called"
    /\ sensitivity' = sens
    /\ metrics_before' = batch
    /\ metrics_data' = batch
    /\ detected' = _detect_anomalies(batch, sens)
    /\ UNCHANGED <<ALERT_TOPIC_ARN, event, response, cloudwatch, published>>

Handle ==
    /\ tPc = "idle"
    /\ \E ev \in Events :
          \E batch \in _load_recent_metrics(_get_lookback_hours(EventSensitivity(ev))) :
              LambdaHandler(ev, batch)
    /\ UNCHANGED <<varsD, varsR>>

Detect ==
    /\ tPc = "idle"
    /\ \E batch \in MetricBatches, s \in Sensitivities : DetectCall(batch, s)
    /\ UNCHANGED <<varsD, varsR>>

NextT == Handle \/ Detect

-----------------------------------------------------------------------------
(* Task router: scikit-learn pieces it uses *)

\* the strings of the model in sorted order (np.unique sorts the classes)
SortedStrings == <<"ai", "human", "image", "text", "video", "w1", "w2", "w3">>

\* LabelEncoder.fit(values): classes_ is the sorted list of distinct values
SortedUnique(values) ==
    LET In(x) == x \in Range(values) IN SelectSeq(SortedStrings, In)

IndexOf(seq, x) == CHOOSE i \in DOMAIN seq : seq[i] = x

\* LabelEncoder.transform(value): the 0-based position among classes_
Encode(classes, x) == IndexOf(classes, x) - 1

\* TaskRouter.feature_columns, target_column and the numerical columns
router_feature_columns ==
    <<"content_type", "verification_method", "task_complexity",
      "expected_response_time", "required_confidence">>
target_column     == "best_worker"
categorical_cols  == <<"content_type", "verification_method">>
numerical_cols    == <<"task_complexity", "expected_response_time", "required_confidence">>

\* StandardScaler.fit on the numerical columns: mean and population variance
RouterScalerFit(rows) ==
    LET n == Len(rows)
        S(c) == SumSeq([i \in 1..n |-> rows[i][c]])
        Q(c) == SumSeq([i \in 1..n |-> rows[i][c] * rows[i][c]])
    IN  [fitted |-> TRUE,
         mean_  |-> [j \in DOMAIN numerical_cols |-> Reduce(S(numerical_cols[j]), n)],
         var_   |-> [j \in DOMAIN numerical_cols |->
                        Reduce(n * Q(numerical_cols[j]) - S(numerical_cols[j]) * S(numerical_cols[j]),
                               n * n)]]

\* RandomForestClassifier(...): not fitted; fitting records the classes
NewClassifier == [fitted |-> FALSE, classes_ |-> <<>>]

\* train_test_split(test_size=0.2): ceil(0.2*n) rows are held out
NumTest(n) == (n + 4) \div 5

\* np.argsort(a): the 0-based indices in ascending order of value, equal
\* values in index order
RECURSIVE InsertSorted(_, _, _)
InsertSorted(a, sorted, i) ==
    IF sorted = <<>> THEN <<i>>
    ELSE IF a[i + 1] < a[Head(sorted) + 1]
         THEN <<i>> \o sorted
         ELSE <<Head(sorted)>> \o InsertSorted(a, Tail(sorted), i)

RECURSIVE ArgSortFrom(_, _)
ArgSortFrom(a, n) ==
    IF n = 0 THEN <<>> ELSE InsertSorted(a, ArgSortFrom(a, n - 1), n - 1)

argsort(a) == ArgSortFrom(a, Len(a))

Reverse(s) == [i \in DOMAIN s |-> s[Len(s) + 1 - i]]

\* a[-3:]
Last3(s) == IF Len(s) <= 3 THEN s ELSE SubSeq(s, Len(s) - 2, Len(s))

\* np.argsort(worker_probs)[-3:][::-1]
top_indices(probs) == Reverse(Last3(argsort(probs)))

-----------------------------------------------------------------------------
(* Task router: TaskRouter *)

\* TaskRouter.__init__
NewRouter ==
    [label_encoders  |-> <<>>,
     scaler          |-> NewScaler,
     model           |-> NewClassifier,
     feature_columns |-> router_feature_columns]

\* LabelEncoder(): not fitted
NewEncoder == <<>>

\* LabelEncoder.fit on column c of df: its classes_
FitEncoder(df, c) == SortedUnique([i \in DOMAIN df.rows |-> df.rows[i][c]])

\* df[c] = encoder.fit_transform(df[c]), on the DataFrame passed in
EncodeColumn(df, c) ==
    [columns |-> df.columns,
     rows    |-> [i \in DOMAIN df.rows |->
                    [d \in df.columns |->
                        IF d = c THEN Encode(FitEncoder(df, c), df.rows[i][c])
                        ELSE df.rows[i][d]]]]

\* TaskRouter.preprocess_data(df): what it raised, the caller's DataFrame as
\* the call leaves it, the encoders and the scaler as the call leaves them.
\* An encoder is entered in label_encoders before its column is read.
router_preprocess_data(df) ==
    LET c1  == categorical_cols[1]
        c2  == categorical_cols[2]
        df1 == EncodeColumn(df, c1)
        df2 == EncodeColumn(df1, c2)
        e1  == [c \in {c1} |-> NewEncoder]
        e2  == [c \in {c1, c2} |-> IF c = c1 THEN FitEncoder(df, c1) ELSE NewEncoder]
        e3  == [c \in {c1, c2} |-> FitEncoder(df, c)]
    IN  IF c1 \notin df.columns
        THEN [raised |-> "KeyError", df |-> df, label_encoders |-> e1, scaler |-> NewScaler]
        ELSE IF c2 \notin df.columns
        THEN [raised |-> "KeyError", df |-> df1, label_encoders |-> e2, scaler |-> NewScaler]
        ELSE IF ~((Range(router_feature_columns) \cup {target_column}) \subseteq df.columns)
        THEN [raised |-> "KeyError", df |-> df2, label_encoders |-> e3, scaler |-> NewScaler]
        ELSE IF df.rows = <<>>
        THEN [raised |-> "ValueError", df |-> df2, label_encoders |-> e3, scaler |-> NewScaler]
        ELSE [raised |-> "", df |-> df2, label_encoders |-> e3,
              scaler |-> RouterScalerFit(df.rows)]

\* TaskRouter.train(training_data); `test` is the set of rows held out
router_train(r, df, test) ==
    LET pre == router_preprocess_data(df)
        n   == Len(df.rows)
        kept    == SelectSeq([i \in 1..n |-> i], LAMBDA i : i \notin test)
        y_train == [k \in DOMAIN kept |-> df.rows[kept[k]][target_column]]
    IN  IF pre.raised # ""
        THEN [raised |-> pre.raised, df |-> pre.df,
              router |-> [r EXCEPT !.label_encoders = pre.label_encoders, !.scaler = pre.scaler]]
        ELSE IF n - NumTest(n) = 0
        THEN [raised |-> "ValueError", df |-> pre.df,
              router |-> [r EXCEPT !.label_encoders = pre.label_encoders, !.scaler = pre.scaler]]
        ELSE [raised |-> "", df |-> pre.df,
              router |-> [r EXCEPT !.label_encoders = pre.label_encoders,
                                   !.scaler = pre.scaler,
                                   !.model = [fitted |-> TRUE, classes_ |-> SortedUnique(y_train)]]]

\* TaskRouter.predict_worker(task_features); probs is what predict_proba
\* returns for the task
predict_worker(r, task, probs) ==
    IF \E c \in Range(categorical_cols) : c \notin DOMAIN r.label_encoders
    THEN Raised("KeyError")
    ELSE IF \E c \in Range(categorical_cols) : task[c] \notin Range(r.label_encoders[c])
    THEN Raised("ValueError")
    ELSE IF ~r.scaler.fitted \/ ~r.model.fitted
    THEN Raised("NotFittedError")
    ELSE IF target_column \notin DOMAIN r.label_encoders
    THEN Raised("KeyError")
    ELSE LET worker_ids == r.label_encoders[target_column]
             top == top_indices(probs)
         IN  Ok([k \in DOMAIN top |-> worker_ids[top[k] + 1]])

\* TaskRouter.save_model: the dict that is dumped and uploaded
save_model(r) ==
    Dump([model           |-> r.model,
          label_encoders  |-> r.label_encoders,
          scaler          |-> r.scaler,
          feature_columns |-> r.feature_columns])

\* TaskRouter.load_model
load_model(artifact) ==
    LET artifacts == Load(artifact)
    IN  [NewRouter EXCEPT !.model = artifacts.model,
                          !.label_encoders = artifacts.label_encoders,
                          !.scaler = artifacts.scaler,
                          !.feature_columns = artifacts.feature_columns]

\* the body of the routing lambda_handler
RoutingResponse(artifact, task, probs) ==
    IF artifact = <<>>
    THEN [statusCode |-> 500, best_workers |-> <<>>]
    ELSE LET res == predict_worker(load_model(artifact), task, probs)
         IN  IF res.raised # ""
             THEN [statusCode |-> 500, best_workers |-> <<>>]
             ELSE [statusCode |-> 200, best_workers |-> res.value]

-----------------------------------------------------------------------------
(* Inputs of the task router *)

TrainingRecords ==
    [content_type           : {"text", "image"},
     verification_method    : {"human"},
     task_complexity        : {1},
     expected_response_time : {2},
     required_confidence    : {1},
     best_worker            : {"w1", "w2"}]

RECURSIVE SeqsUpTo(_, _)
SeqsUpTo(S, n) ==
    IF n = 0 THEN {<<>>}
    ELSE LET shorter == SeqsUpTo(S, n - 1)
         IN  shorter \cup {Append(q, x) : q \in {t \in shorter : Len(t) = n - 1}, x \in S}

TrainingSets == SeqsUpTo(TrainingRecords, MaxTraining)

Tasks ==
    [content_type           : {"text", "image", "video"},
     verification_method    : {"human", "ai"},
     task_complexity        : {1},
     expected_response_time : {2},
     required_confidence    : {1}]

\* predict_proba over k classes, as vote counts
Probabilities(k) == [1..k -> 0..MaxVotes]

-----------------------------------------------------------------------------
(* Operations of the task router *)

InitR ==
    /\ rPc = "new"
    /\ router = NewRouter
    /\ router_s3 = <<>>
    /\ training_before = DataFrame(<<>>)
    /\ training_data = DataFrame(<<>>)
    /\ task_features = <<>>
    /\ worker_probs = <<>>
    /\ predicted = NotCalled
    /\ route_response = [statusCode |-> 0, best_workers |-> <<>>]

\* router = TaskRouter(); router.train(training_data)
RouterTrain(records, test) ==
    LET out == router_train(NewRouter, DataFrame(records), test)
    IN
    /\ rPc = "new"
    /\ rPc' = IF out.raised = "" THEN "trained" ELSE "trainFailed"
    /\ router' = out.router
    /\ training_before' = DataFrame(records)
    /\ training_data' = out.df
    /\ UNCHANGED <<router_s3, task_features, worker_probs, predicted, route_response>>

\* router.save_model(bucket, key)
SaveModel ==
    /\ rPc = "trained"
    /\ router_s3 = <<>>
    /\ router_s3' = save_model(router)
    /\ UNCHANGED <<rPc, router, training_before, training_data, task_features,
                   worker_probs, predicted, route_response>>
    /\ UNCHANGED <<varsT, varsD>>

\* a task arrives for routing; probs is what predict_proba gives for it
ReceiveTask(task, probs) ==
    /\ rPc \in {"trained", "trainFailed"}
    /\ task_features = <<>>
    /\ task_features' = task
    /\ worker_probs' = probs
    /\ UNCHANGED <<rPc, router, router_s3, training_before, training_data,
                   predicted, route_response>>

\* router.predict_worker(task_features) on the in-memory router
PredictInMemory ==
    /\ task_features # <<>>
    /\ predicted' = predict_worker(router, task_features, worker_probs)
    /\ UNCHANGED <<rPc, router, router_s3, training_before, training_data,
                   task_features, worker_probs, route_response>>
    /\ UNCHANGED <<varsT, varsD>>

\* the routing lambda_handler on event['task_features']
RoutingLambda ==
    /\ task_features # <<>>
    /\ route_response' = RoutingResponse(router_s3, task_features, worker_probs)
    /\ UNCHANGED <<rPc, router, router_s3, training_before, training_data,
                   task_features, worker_probs, predicted>>
    /\ UNCHANGED <<varsT, varsD>>

TrainRouter ==
    /\ rPc = "new"
    /\ \E records \in TrainingSets :
          \E test \in {t \in SUBSET (1..Len(records)) :
                          Cardinality(t) = NumTest(Len(records))} :
              RouterTrain(records, test)
    /\ UNCHANGED <<varsT, varsD>>

Task ==
    /\ task_features = <<>>
    /\ \E task \in Tasks, probs \in Probabilities(Len(router.model.classes_)) :
          ReceiveTask(task, probs)
    /\ UNCHANGED <<varsT, varsD>>

NextR == TrainRouter \/ SaveModel \/ Task \/ PredictInMemory \/ RoutingLambda

-----------------------------------------------------------------------------
(* Properties of the threshold detector *)

AnomaliesOfType(anoms, t) == LET Is(a) == a.type = t IN SelectSeq(anoms, Is)

FlaggedUnder(s) == Range(response_time_anomalies(metrics_data, s))
EmittedUnder(s) ==
    AnomaliesOfType(ResponseTimeAnomaly(metrics_data, s), "HIGH_RESPONSE_TIME") # <<>>
ReportedCount(anoms) ==
    LET hrt == AnomaliesOfType(anoms, "HIGH_RESPONSE_TIME")
    IN  IF hrt = <<>> THEN 0 ELSE hrt[1].count

\* C3: for an empty metrics batch and any sensitivity, _detect_anomalies
\* returns an empty anomaly list without raising, and lambda_handler reports
\* statusCode 200 with anomaliesDetected = 0.
C3_EmptyBatchIsEmptySuccess ==
    /\ (tPc = "called" /\ metrics_before = <<>>)
          => (detected.raised = "" /\ detected.value = <<>>)
    /\ (tPc = "handled" /\ metrics_before = <<>>)
          => (response.statusCode = 200 /\ response.anomaliesDetected = 0)

\* C4: on every non-empty batch the records flagged as exceeding
\* mean + sigma*std under a looser sigma are among those flagged under a
\* stricter one (low within medium within high), so the reported count never
\* grows with a looser sensitivity and HIGH_RESPONSE_TIME emitted under 'low'
\* is emitted under 'medium' and 'high' too; an unknown sensitivity string
\* gives exactly the result of 'medium'.
C4_ThresholdMonotone ==
    (tPc # "idle" /\ metrics_data # <<>>) =>
        /\ FlaggedUnder("low") \subseteq FlaggedUnder("medium")
        /\ FlaggedUnder("medium") \subseteq FlaggedUnder("high")
        /\ ReportedCount(ResponseTimeAnomaly(metrics_data, "low"))
              <= ReportedCount(ResponseTimeAnomaly(metrics_data, "medium"))
        /\ ReportedCount(ResponseTimeAnomaly(metrics_data, "medium"))
              <= ReportedCount(ResponseTimeAnomaly(metrics_data, "high"))
        /\ EmittedUnder("low") => (EmittedUnder("medium") /\ EmittedUnder("high"))
        /\ \A s \in Sensitivities :
              Lower(s) \notin {"low", "medium", "high"}
                  => /\ _detect_anomalies(metrics_data, s) = _detect_anomalies(metrics_data, "medium")
                     /\ _get_lookback_hours(s) = _get_lookback_hours("medium")
        /\ detected.raised = ""
        /\ ReportedCount(detected.value) <= Cardinality(FlaggedUnder("high"))
        /\ ReportedCount(detected.value) >= Cardinality(FlaggedUnder("low"))
        /\ Lower(sensitivity) \notin {"low", "high"}
              => ReportedCount(detected.value) = Cardinality(FlaggedUnder("medium"))

\* a run with an unknown sensitivity that reports slow responses which 'low'
\* would not have flagged and 'high' flags
C4_Witness ==
    /\ tPc = "handled"
    /\ sensitivity = "urgent"
    /\ ReportedCount(detected.value) > 0
    /\ FlaggedUnder("low") = {}
    /\ FlaggedUnder("high") # {}

\* the records of one content type and the accurate ones among them, counted
\* on the batch itself
GroupIdx(ct)    == {i \in DOMAIN metrics_data : metrics_data[i].content_type = ct}
AccurateIdx(ct) == {i \in GroupIdx(ct) : metrics_data[i].is_accurate}

\* C5: _detect_anomalies emits exactly one CONTENT_TYPE_LOW_ACCURACY anomaly
\* for each content_type group with at least 10 records and mean accuracy
\* strictly below 0.7, of severity HIGH when the mean is strictly below 0.5
\* and MEDIUM otherwise, and none for a group of fewer than 10 records.
C5_ContentTypeRule ==
    (tPc # "idle" /\ detected.raised = "") =>
        \A ct \in Range(SortedContentTypes) :
            LET c    == Cardinality(GroupIdx(ct))
                a    == Cardinality(AccurateIdx(ct))
                OfCt(x) == x.type = "CONTENT_TYPE_LOW_ACCURACY" /\ x.contentType = ct
                mine == SelectSeq(AnomaliesOfType(detected.value, "CONTENT_TYPE_LOW_ACCURACY"), OfCt)
            IN  IF c >= 10 /\ 10 * a < 7 * c
                THEN /\ Len(mine) = 1
                     /\ mine[1].severity = (IF 2 * a < c THEN "HIGH" ELSE "MEDIUM")
                     /\ mine[1].count = c
                ELSE mine = <<>>

\* ten records of one content type, four of them accurate: flagged HIGH
C5_Witness ==
    /\ tPc # "idle"
    /\ detected.raised = ""
    /\ \E ct \in Range(SortedContentTypes) :
          /\ Cardinality(GroupIdx(ct)) = 10
          /\ Cardinality(AccurateIdx(ct)) = 4
          /\ \E i \in DOMAIN detected.value :
                /\ detected.value[i].type = "CONTENT_TYPE_LOW_ACCURACY"
                /\ detected.value[i].contentType = ct
                /\ detected.value[i].severity = "HIGH"

\* C7: lambda_handler publishes to SNS only if the detected anomalies hold at
\* least one of severity HIGH, the published message lists only HIGH
\* anomalies, and a run with no data, no anomalies or only MEDIUM anomalies
\* publishes nothing.
C7_AlertOnlyOnHigh ==
    /\ Len(published) <= 1
    /\ published # <<>> =>
          /\ tPc = "handled"
          /\ detected.raised = ""
          /\ \E i \in DOMAIN detected.value : detected.value[i].severity = "HIGH"
          /\ published[1].anomalies # <<>>
          /\ \A k \in DOMAIN published[1].anomalies :
                /\ published[1].anomalies[k].severity = "HIGH"
                /\ published[1].anomalies[k] \in Range(detected.value)
    /\ (\/ metrics_data = <<>>
        \/ detected.raised # ""
        \/ \A i \in DOMAIN detected.value : detected.value[i].severity = "MEDIUM")
          => published = <<>>

\* an alert was published for a run that also detected a MEDIUM anomaly
C7_Witness ==
    /\ published # <<>>
    /\ \E i \in DOMAIN detected.value : detected.value[i].severity = "MEDIUM"
    /\ \E i \in DOMAIN detected.value : detected.value[i].severity = "HIGH"

-----------------------------------------------------------------------------
(* Properties of the model-based detector *)

\* the scaler as train(H) fitted it
TrainedScaler == preprocess_data(NewScaler, train_before).scaler

\* C1: the scaler's fitted statistics are set only by train: after train(H)
\* and any detect_anomalies(B), the scaler statistics equal those fitted on H
\* (the features scored are standardized with H's statistics, never with
\* statistics recomputed from B).
C1_ScalerSetOnlyByTrain ==
    (dPc = "trained" /\ mem_result # NotCalled) => detector.scaler = TrainedScaler

\* C2: train(H), save, load, score(B) gives exactly the flags and scores of
\* train(H), score(B) on the in-memory detector; the saved artifact holds the
\* fitted model and the fitted scaler, and the scoring path uses them without
\* refitting.
C2_RoundTrip ==
    (dPc = "trained" /\ mem_result # NotCalled /\ lam_result # NotCalled) =>
        /\ lam_result = mem_result
        /\ Load(s3) = [model |-> detector.model, scaler |-> TrainedScaler]
        /\ lam_scaler = TrainedScaler

\* C8: with window = 10, scoring n records drops the first window-1 records
\* and yields n-(window-1) flags and scores; with fewer than window+1 records
\* detect_anomalies returns empty flags and scores instead of raising.
C8_ShortBatch ==
    (dPc = "trained" /\ mem_result # NotCalled) =>
        LET n == Len(mem_before.rows)
        IN  /\ mem_result.raised = ""
            /\ IF n < Window + 1
               THEN mem_result.value = << <<>>, <<>> >>
               ELSE /\ Len(mem_result.value[1]) = n - (Window - 1)
                    /\ Len(mem_result.value[2]) = n - (Window - 1)

\* C9: after AnomalyDetector.train, AnomalyDetector.detect_anomalies,
\* _detect_anomalies or TaskRouter.train, the caller's input batch has the
\* records, columns and values it had before the call.
C9_InputsNotMutated ==
    /\ train_data = train_before
    /\ mem_data = mem_before
    /\ metrics_data = metrics_before
    /\ training_data = training_before

\* C10: every anomaly entry reported by the scoring lambda_handler carries
\* the index, timestamp and metrics of the input record whose feature vector
\* was flagged: flag positions, counted after the first window-1 records are
\* dropped, are mapped back to positions in verification_data.
C10_EntriesIdentifyFlaggedRecord ==
    (lam_response.statusCode = 200) =>
        LET flagged == WhereTrue(lam_result.value[1], 1)
        IN  /\ Len(lam_response.anomalies) = Len(flagged)
            /\ \A k \in DOMAIN lam_response.anomalies :
                  LET e    == lam_response.anomalies[k]
                      orig == flagged[k] + (Window - 1)
                      rec  == verification_data[orig + 1]
                  IN  /\ e.index = orig
                      /\ e.timestamp = rec.timestamp
                      /\ e.metrics[1] = rec.response_time_ms
                      /\ e.metrics[4] # NaN

-----------------------------------------------------------------------------
(* Properties of the task router *)

\* the ranking the claim describes: class indices by probability descending,
\* equal probabilities in class-index order, the first three at most
RankedBefore(probs, i, j) ==
    probs[i] > probs[j] \/ (probs[i] = probs[j] /\ i < j)

IsRanking(idx, probs) ==
    /\ Len(idx) = (IF Len(probs) < 3 THEN Len(probs) ELSE 3)
    /\ \A k \in DOMAIN idx : idx[k] \in DOMAIN probs
    /\ \A k, l \in DOMAIN idx : k < l => RankedBefore(probs, idx[k], idx[l])
    /\ \A i \in DOMAIN probs : i \notin Range(idx)
          => \A k \in DOMAIN idx : RankedBefore(probs, idx[k], i)

SeenInTraining(task) ==
    \A c \in Range(categorical_cols) :
        /\ c \in DOMAIN router.label_encoders
        /\ task[c] \in Range(router.label_encoders[c])

\* C6: for a trained (or loaded) TaskRouter and a task whose categorical
\* values were seen in training, predict_worker returns worker ids, as many
\* as min(3, number of worker classes), by predicted probability descending,
\* classes of equal probability in class-index order.
C6_RouterRanking ==
    (rPc = "trained" /\ predicted # NotCalled /\ SeenInTraining(task_features)) =>
        /\ predicted.raised = ""
        /\ \E idx \in UNION {[1..m -> DOMAIN worker_probs] : m \in 0..3} :
              /\ IsRanking(idx, worker_probs)
              /\ predicted.value = [k \in DOMAIN idx |-> router.model.classes_[idx[k]]]

-----------------------------------------------------------------------------
(* Specifications: one per component, the other components at rest *)

InitThreshold == InitT /\ InitD /\ InitR
SpecThreshold == InitThreshold /\ [][NextT]_vars

InitDetector == InitD /\ InitT /\ ALERT_TOPIC_ARN = "" /\ InitR
SpecDetector == InitDetector /\ [][NextD]_vars

InitRouter == InitR /\ InitT /\ ALERT_TOPIC_ARN = "" /\ InitD
SpecRouter == InitRouter /\ [][NextR]_vars

====
